---- MODULE Spec2Model ----
(***************************************************************************)
(* Model of gm_audio_api.cpp: the musical transport, the quantized launch  *)
(* queue, the song sequencer and the deferred deletion of sounds.          *)
(*                                                                         *)
(* Representation.                                                         *)
(*  - Beats (double in the source) are integers counting 1e-6 beat, so the *)
(*    tolerance 1e-6 of the source is exactly one unit (Eps).  Arithmetic  *)
(*    is exact: rounding of IEEE doubles is not modelled.                  *)
(*  - Wall-clock time (high_resolution_clock) is the variable now, in      *)
(*    milliseconds; it moves only in the action Advance.                   *)
(*  - A ma_sound* is a positive integer, 0 is nullptr.  allocated is the   *)
(*    set of pointers new ma_sound() returned and delete has not yet seen; *)
(*    new returns the least pointer not in it (an address may be reused    *)
(*    once deleted).                                                       *)
(*  - Deleting a pointer that is not allocated is undefined behaviour:     *)
(*    the process runs on, or it dies (crashed; no call is made after      *)
(*    that).                                                               *)
(*  - gPendingDelete (a vector whose order is never observed) is the       *)
(*    number of times each pointer occurs in it.                           *)
(*  - Every exported function runs under gMutex, so each is one action.    *)
(*  - gPausedFrame and gm_audio_pause/resume/set_volume/set_loop touch     *)
(*    nothing but one sound of the basic table and are left out.           *)
(*  - last records the last call: its name, its result, the sounds it      *)
(*    started and stopped in miniaudio, and what a tick released, fired    *)
(*    and deleted.  It is history only; no action reads it.                *)
(***************************************************************************)
EXTENDS Integers, Sequences, FiniteSets, TLC

\* ------------------------------------------------------------------ bounds
\* Sounds that may be allocated at the same time.
MaxHandle == 3
\* Ids makeId() may hand out during one run.
MaxId == 2
\* The wall clock is advanced at most this many periods of ClockPeriod ms.
MaxClock == 2

\* ------------------------------------------------------------ constants
\* Units of one beat: the source's tolerance 1e-6 is one unit.
BeatUnit == 1000000
\* 1e-6 beat, the tolerance of every "is due" comparison.
Eps == 1
\* bpm / 60.0 beats per second; the wall clock counts milliseconds.
SecondsPerMinute == 60
MsPerSecond == 1000
\* Transport::bpm{120.0}
DefaultBpm == 120
\* int beatsPerBar = 4; int bars = 1;
DefaultBeatsPerBar == 4
DefaultBars == 1

NullPtr == 0
Handles == 1..MaxHandle

\* Milliseconds of wall-clock time in one period of the model's clock.
ClockPeriod == MsPerSecond \div 2
MaxNow == MaxClock * ClockPeriod

\* --------------------------------------------------------------- inputs
\* Amounts of wall-clock time (ms) that pass between two calls.
AdvanceSteps == {ClockPeriod \div 2, ClockPeriod}
\* Arguments of gm_audio_set_tempo.
Tempos == {-60, 0, 60, 120}
\* Arguments quant_beats of gm_audio_play_on_beat (in units of 1e-6 beat).
Quanta == {0, BeatUnit \div 2, BeatUnit}

VARIABLES
    gEngineIniciado,  \* bool
    gSounds,          \* id -> ma_sound*  (unordered_map)
    gNextId,          \* atomic<int> gNextId
    gTransport,       \* [playing, bpm, baseBeat, startTime]
    gQueue,           \* vector<PendingLaunch>  [id, targetBeat]
    gActiveVoices,    \* vector<ActiveVoice>    [sound, id]
    gPendingStops,    \* vector<PendingStop>    [voice, endBeat]
    gPendingDelete,   \* vector<ma_sound*>, as occurrences per pointer
    gSong,            \* [loaded, loop, beatsPerBar, bars, startBeat, events]
    now,              \* wall clock, ms
    allocated,        \* pointers returned by new and not yet deleted
    crashed,          \* the process died of an invalid delete or engine use
    last,             \* history: the last call
    pc                \* a second thread's place inside gm_audio_play

vars == <<gEngineIniciado, gSounds, gNextId, gTransport, gQueue, gActiveVoices,
          gPendingStops, gPendingDelete, gSong, now, allocated,
          crashed, last, pc>>

\* The program's own state: everything but the history variable.
prog == <<gEngineIniciado, gSounds, gNextId, gTransport, gQueue, gActiveVoices,
          gPendingStops, gPendingDelete, gSong, allocated,
          crashed>>

\* ---------------------------------------------------------------- helpers
Range(s) == {s[i] : i \in DOMAIN s}

\* ceil(a / b) for b > 0
Ceil(a, b) == -((-a) \div b)

\* Song{} : the default-constructed song.
EmptySong ==
    [loaded |-> FALSE, loop |-> FALSE, beatsPerBar |-> DefaultBeatsPerBar,
     bars |-> DefaultBars, startBeat |-> 0, events |-> <<>>]

\* The history of a call that starts, stops, releases and fires nothing.
\*   arg: the number the call was given (0: none)
\*   phase: for a song load, the step that ended it: "read", "events",
\*          "build" (an event could not be built) or "done"
\*   beat: the beat position the call read (-1: none)
\*   started, stopped: the sounds given to ma_sound_start / ma_sound_stop
\*   due, rel: the ids the call erased from the queue, and those it started
\*   fired: per song event, the values of nextBeat at which a tick fired it
\*   flushed: the pointers a tick deleted; badDelete: one of them twice
NoLog(name, r) ==
    [op |-> name, ret |-> r, arg |-> 0, phase |-> "", beat |-> -1,
     started |-> {},
     stopped |-> {},
     due |-> <<>>, rel |-> <<>>, fired |-> <<>>, flushed |-> {},
     badDelete |-> FALSE]

\* transport_get_beat_unlocked, for a transport t read at wall-clock time n.
transport_get_beat_unlocked(t, n) ==
    IF ~t.playing THEN t.baseBeat
    ELSE t.baseBeat
         + ((n - t.startTime) * t.bpm * (BeatUnit \div MsPerSecond))
              \div SecondsPerMinute

\* The beat position a call made now would read.
Beat == transport_get_beat_unlocked(gTransport, now)

\* No call is made once the process has died.
Running == ~crashed

\* new ma_sound(): the least pointer that is not allocated.
CanNew(alloc) == Handles \ alloc # {}
NewPtr(alloc) == CHOOSE h \in Handles \ alloc : \A g \in Handles \ alloc : h <= g

\* schedule_sound_delete: push s on the deferred-delete vector pd.
schedule_sound_delete(pd, s) ==
    IF s = NullPtr THEN pd ELSE [pd EXCEPT ![s] = @ + 1]

RECURSIVE ScheduleAll(_, _)
\* schedule_sound_delete for every pointer of the sequence ss, in order.
ScheduleAll(pd, ss) ==
    IF ss = <<>> THEN pd
    ELSE ScheduleAll(schedule_sound_delete(pd, Head(ss)), Tail(ss))

\* schedule_sound_delete for every value of the map m (for (auto& kv : m)).
ScheduleMap(pd, m) ==
    [h \in DOMAIN pd |-> pd[h] + Cardinality({id \in DOMAIN m : m[id] = h})]

\* ------------------------------------------------------------------- Init
Init ==
    /\ gEngineIniciado = FALSE
    /\ gSounds = <<>>
    /\ gNextId = 1
    /\ gTransport = [playing |-> FALSE, bpm |-> DefaultBpm, baseBeat |-> 0,
                     startTime |-> 0]
    /\ gQueue = <<>>
    /\ gActiveVoices = <<>>
    /\ gPendingStops = <<>>
    /\ gPendingDelete = [h \in Handles |-> 0]
    /\ gSong = EmptySong
    /\ now = 0
    /\ allocated = {}
    /\ crashed = FALSE
    /\ last = NoLog("none", 0)
    /\ pc = "idle"

\* The wall clock moves by d ms; the program does nothing.
Advance(d) ==
    /\ Running
    /\ UNCHANGED pc
    /\ now + d <= MaxNow
    /\ now' = now + d
    /\ last' = NoLog("advance", 0)
    /\ UNCHANGED prog

\* ----------------------------------------------------------- init/shutdown
\* engineOk: whether ma_engine_init succeeds.
\* An init that also starts the ids again from 1.
InitResetsIds(engineOk) ==
    /\ Running
    /\ UNCHANGED pc
    /\ ~gEngineIniciado /\ engineOk
    /\ gEngineIniciado' = TRUE
    /\ gSounds' = <<>>
    /\ gQueue' = <<>>
    /\ gNextId' = 1
    /\ gTransport' = [gTransport EXCEPT !.playing = FALSE, !.bpm = DefaultBpm,
                                        !.baseBeat = 0]
    /\ last' = NoLog("init", 1)
    /\ UNCHANGED <<gActiveVoices, gPendingStops, gPendingDelete, gSong, now,
                   allocated, crashed>>

gm_audio_init(engineOk) ==
    /\ Running
    /\ UNCHANGED pc
    /\ IF gEngineIniciado THEN
          /\ last' = NoLog("init", 1)
          /\ UNCHANGED <<prog, now>>
       ELSE IF engineOk THEN
          /\ gEngineIniciado' = TRUE
          /\ gSounds' = <<>>
          /\ gQueue' = <<>>
          /\ gTransport' = [gTransport EXCEPT !.playing = FALSE,
                                              !.bpm = DefaultBpm,
                                              !.baseBeat = 0]
          /\ last' = NoLog("init", 1)
          /\ UNCHANGED <<gNextId, gActiveVoices, gPendingStops, gPendingDelete,
                         gSong, now, allocated, crashed>>
       ELSE
          /\ last' = NoLog("init", 0)
          /\ UNCHANGED <<prog, now>>

\* ------------------------------------------------------------- transport
\* A play that sets the flag but leaves the anchor time where it was: the
\* time spent paused is then counted as played.
TransportPlayKeepsAnchor(t, n) == [t EXCEPT !.playing = TRUE]

\* The transport after gm_audio_transport_play at time n.
TransportPlay(t, n) ==
    IF ~t.playing THEN [t EXCEPT !.startTime = n, !.playing = TRUE] ELSE t

gm_audio_transport_play ==
    /\ Running
    /\ UNCHANGED pc
    /\ IF ~gEngineIniciado THEN
          /\ last' = NoLog("transport_play", 0)
          /\ UNCHANGED <<prog, now>>
       ELSE
          /\ gTransport' = TransportPlay(gTransport, now)
          /\ last' = NoLog("transport_play", 1)
          /\ UNCHANGED <<gEngineIniciado, gSounds, gNextId, gQueue,
                         gActiveVoices, gPendingStops, gPendingDelete, gSong,
                         now, allocated, crashed>>

\* A pause that records the beat but forgets to clear the playing flag: the
\* elapsed time is then counted again by the next call.
TransportPauseKeepsPlaying(t, n) ==
    IF t.playing
    THEN [t EXCEPT !.baseBeat = transport_get_beat_unlocked(t, n)]
    ELSE t

\* The transport after gm_audio_transport_pause at time n.
TransportPause(t, n) ==
    IF t.playing
    THEN [t EXCEPT !.baseBeat = transport_get_beat_unlocked(t, n),
                   !.playing = FALSE]
    ELSE t

gm_audio_transport_pause ==
    /\ Running
    /\ UNCHANGED pc
    /\ IF ~gEngineIniciado THEN
          /\ last' = NoLog("transport_pause", 0)
          /\ UNCHANGED <<prog, now>>
       ELSE
          /\ gTransport' = TransportPause(gTransport, now)
          /\ last' = NoLog("transport_pause", 1)
          /\ UNCHANGED <<gEngineIniciado, gSounds, gNextId, gQueue,
                         gActiveVoices, gPendingStops, gPendingDelete, gSong,
                         now, allocated, crashed>>

\* A tempo change that keeps the old anchor: the beat position jumps.
SetTempoKeepsAnchor(t, bpm, n) == [t EXCEPT !.bpm = bpm]

\* The transport after gm_audio_set_tempo(bpm) at time n, for bpm > 0.
SetTempo(t, bpm, n) ==
    LET current == transport_get_beat_unlocked(t, n)
    IN  IF t.playing
        THEN [t EXCEPT !.bpm = bpm, !.baseBeat = current, !.startTime = n]
        ELSE [t EXCEPT !.bpm = bpm, !.baseBeat = current]

\* A tempo change that takes whatever number it is given.
SetTempoUnchecked(bpm) ==
    /\ Running
    /\ UNCHANGED pc
    /\ gTransport' = SetTempo(gTransport, bpm, now)
    /\ last' = [NoLog("set_tempo", 1) EXCEPT !.arg = bpm, !.beat = Beat]
    /\ UNCHANGED <<gEngineIniciado, gSounds, gNextId, gQueue, gActiveVoices,
                   gPendingStops, gPendingDelete, gSong, now, allocated,
                   crashed>>

\* No check of gEngineIniciado in the source.
gm_audio_set_tempo(bpm) ==
    /\ Running
    /\ UNCHANGED pc
    /\ IF bpm <= 0 THEN
          /\ last' = [NoLog("set_tempo", 0) EXCEPT !.arg = bpm, !.beat = Beat]
          /\ UNCHANGED <<prog, now>>
       ELSE
          /\ gTransport' = SetTempo(gTransport, bpm, now)
          /\ last' = [NoLog("set_tempo", 1) EXCEPT !.arg = bpm, !.beat = Beat]
          /\ UNCHANGED <<gEngineIniciado, gSounds, gNextId, gQueue,
                         gActiveVoices, gPendingStops, gPendingDelete, gSong,
                         now, allocated, crashed>>

\* ------------------------------------------------------- basic playback
\* gm_audio_play: fileOk is whether ma_sound_init_from_file succeeds.  The
\* check of gEngineIniciado is made before the mutex is taken.
gm_audio_play(fileOk) ==
    /\ Running
    /\ UNCHANGED pc
    /\ IF ~gEngineIniciado \/ ~fileOk THEN
          /\ last' = NoLog("play", 0)
          /\ UNCHANGED <<prog, now>>
       ELSE
          /\ CanNew(allocated) /\ gNextId <= MaxId
          /\ allocated' = allocated \cup {NewPtr(allocated)}
          /\ gNextId' = gNextId + 1
          /\ gSounds' = (gNextId :> NewPtr(allocated)) @@ gSounds
          /\ last' = [NoLog("play", gNextId) EXCEPT !.started = {NewPtr(allocated)}]
          /\ UNCHANGED <<gEngineIniciado, gTransport, gQueue, gActiveVoices,
                         gPendingStops, gPendingDelete, gSong, now, crashed>>

\* gm_audio_play called from a second thread while other calls run, in the
\* two steps the mutex divides it into. Line 316 reads gEngineIniciado before
\* line 317 takes gMutex: the call either returns 0 or goes on to wait for
\* the lock, and whole calls of other threads run in between.
gm_audio_play_enter ==
    /\ Running
    /\ pc = "idle"
    /\ IF ~gEngineIniciado THEN
          /\ last' = NoLog("play", 0)
          /\ UNCHANGED <<prog, now, pc>>
       ELSE
          /\ pc' = "locking"
          /\ UNCHANGED <<prog, now, last>>

\* Lines 317-328 under the lock, gEngineIniciado not read again. On an engine
\* that gm_audio_shutdown has passed to ma_engine_uninit in between,
\* ma_sound_init_from_file works on freed engine state: it may fail, kill
\* the process, or return a sound.
gm_audio_play_locked(fileOk) ==
    /\ Running
    /\ pc = "locking"
    /\ pc' = "idle"
    /\ IF ~fileOk THEN
          /\ last' = NoLog("play", 0)
          /\ UNCHANGED <<prog, now>>
       ELSE
          /\ CanNew(allocated) /\ gNextId <= MaxId
          /\ allocated' = allocated \cup {NewPtr(allocated)}
          /\ gNextId' = gNextId + 1
          /\ gSounds' = (gNextId :> NewPtr(allocated)) @@ gSounds
          /\ last' = [NoLog("play", gNextId) EXCEPT !.started = {NewPtr(allocated)}]
          /\ crashed' \in (IF gEngineIniciado THEN {crashed} ELSE BOOLEAN)
          /\ UNCHANGED <<gEngineIniciado, gTransport, gQueue, gActiveVoices,
                         gPendingStops, gPendingDelete, gSong, now>>

\* gm_audio_stop(id): no check of gEngineIniciado in the source.
gm_audio_stop(id) ==
    /\ Running
    /\ UNCHANGED pc
    /\ IF id \notin DOMAIN gSounds THEN
          /\ last' = [NoLog("stop", 0) EXCEPT !.arg = id]
          /\ UNCHANGED <<prog, now>>
       ELSE
          /\ gPendingDelete' = schedule_sound_delete(gPendingDelete, gSounds[id])
          /\ gSounds' = [i \in DOMAIN gSounds \ {id} |-> gSounds[i]]
          /\ last' = [NoLog("stop", 1) EXCEPT !.arg = id,
                                               !.stopped = {gSounds[id]}]
          /\ UNCHANGED <<gEngineIniciado, gNextId, gTransport, gQueue,
                         gActiveVoices, gPendingStops, gSong, now, allocated,
                         crashed>>

\* --------------------------------------------------------- quantized launch
\* A target that is always the grid line after the current beat.
QuantTargetNextLine(nowBeat, q) == (nowBeat \div q + 1) * q

\* std::ceil(nowBeat / q) * q
QuantTarget(nowBeat, q) == Ceil(nowBeat, q) * q

\* if (quant_beats <= 0.0) quant_beats = 1.0;
QuantOrDefault(quant_beats) == IF quant_beats <= 0 THEN BeatUnit ELSE quant_beats

\* gm_audio_play_on_beat: the sound is created but not started.
gm_audio_play_on_beat(fileOk, quant_beats) ==
    /\ Running
    /\ UNCHANGED pc
    /\ IF ~gEngineIniciado \/ ~fileOk THEN
          /\ last' = NoLog("play_on_beat", 0)
          /\ UNCHANGED <<prog, now>>
       ELSE
          /\ CanNew(allocated) /\ gNextId <= MaxId
          /\ allocated' = allocated \cup {NewPtr(allocated)}
          /\ gNextId' = gNextId + 1
          /\ gSounds' = (gNextId :> NewPtr(allocated)) @@ gSounds
          /\ gQueue' = Append(gQueue,
                [id |-> gNextId,
                 targetBeat |-> QuantTarget(Beat, QuantOrDefault(quant_beats))])
          /\ last' = [NoLog("play_on_beat", gNextId) EXCEPT
                          !.arg = quant_beats, !.beat = Beat]
          /\ UNCHANGED <<gEngineIniciado, gTransport, gActiveVoices,
                         gPendingStops, gPendingDelete, gSong, now, crashed>>

\* ---------------------------------------------------------- transport stop
\* The pointers of a vector of PendingStop / ActiveVoice, in order.
StopVoices(ps) == [i \in DOMAIN ps |-> ps[i].voice]
VoiceSounds(av) == [i \in DOMAIN av |-> av[i].sound]

\* Stop and schedule the deletion of every pending-stop voice, then of every
\* active voice (the two loops of gm_audio_transport_stop and
\* gm_audio_song_stop): the deferred-delete vector afterwards.
ScheduleVoices(pd, ps, av) ==
    ScheduleAll(ScheduleAll(pd, StopVoices(ps)), VoiceSounds(av))

\* A rearm that moves every event back but leaves a finished one finished.
RearmKeepsFinished(song) ==
    IF song.loaded
    THEN [song EXCEPT !.startBeat = 0,
                      !.events = [i \in DOMAIN song.events |->
                          [song.events[i] EXCEPT
                              !.nextBeat = song.events[i].offsetBeat]]]
    ELSE song

\* Rearm of the loaded song by gm_audio_transport_stop.
RearmAtOrigin(song) ==
    IF song.loaded
    THEN [song EXCEPT !.startBeat = 0,
                      !.events = [i \in DOMAIN song.events |->
                          [song.events[i] EXCEPT !.active = TRUE,
                                                 !.nextBeat = song.events[i].offsetBeat]]]
    ELSE song

\* The variant that also gives up the sounds of the launches it drops.
TransportStopReclaimsQueued ==
    /\ Running
    /\ UNCHANGED pc
    /\ gEngineIniciado
    /\ gTransport' = [gTransport EXCEPT !.playing = FALSE, !.baseBeat = 0]
    /\ gQueue' = <<>>
    /\ gSounds' = [id \in DOMAIN gSounds \ {gQueue[i].id : i \in DOMAIN gQueue}
                      |-> gSounds[id]]
    /\ gPendingDelete' =
          ScheduleAll(ScheduleVoices(gPendingDelete, gPendingStops, gActiveVoices),
                      [i \in DOMAIN gQueue |->
                          IF gQueue[i].id \in DOMAIN gSounds
                          THEN gSounds[gQueue[i].id] ELSE NullPtr])
    /\ gPendingStops' = <<>>
    /\ gActiveVoices' = <<>>
    /\ gSong' = RearmAtOrigin(gSong)
    /\ last' = [NoLog("transport_stop", 1) EXCEPT
          !.stopped = Range(StopVoices(gPendingStops))
                      \cup Range(VoiceSounds(gActiveVoices)),
          !.due = [i \in DOMAIN gQueue |-> gQueue[i].id]]
    /\ UNCHANGED <<gEngineIniciado, gNextId, now, allocated, crashed>>

gm_audio_transport_stop ==
    /\ Running
    /\ UNCHANGED pc
    /\ IF ~gEngineIniciado THEN
          /\ last' = NoLog("transport_stop", 0)
          /\ UNCHANGED <<prog, now>>
       ELSE
          /\ gTransport' = [gTransport EXCEPT !.playing = FALSE, !.baseBeat = 0]
          /\ gQueue' = <<>>
          /\ gPendingDelete' = ScheduleVoices(gPendingDelete, gPendingStops, gActiveVoices)
          /\ gPendingStops' = <<>>
          /\ gActiveVoices' = <<>>
          /\ gSong' = RearmAtOrigin(gSong)
          /\ last' = [NoLog("transport_stop", 1) EXCEPT
                !.stopped = Range(StopVoices(gPendingStops))
                            \cup Range(VoiceSounds(gActiveVoices)),
                !.due = [i \in DOMAIN gQueue |-> gQueue[i].id]]
          /\ UNCHANGED <<gEngineIniciado, gSounds, gNextId, now, allocated,
                         crashed>>

\* ------------------------------------------------------------ song: load
\* The event list json_extract_events yields, and the other fields the
\* loader reads from the text.  bpm = 0 stands for "no bpm field".
FileEvent(off, d) == [note |-> FALSE, offsetBeat |-> off, dur |-> d]
NoteEvent(off, d) == [note |-> TRUE, offsetBeat |-> off, dur |-> d]

SongText(r, b, bpb, n, l, instr, evs) ==
    [readable |-> r, bpm |-> b, beatsPerBar |-> bpb, bars |-> n, loop |-> l,
     instrument |-> instr, events |-> evs]

\* The song definition files the model loads.  Their tempo is 240 bpm: two
\* beats go by in one ClockPeriod.
\* One bar of four beats, played once, one clip on beat 0.
OneBarSong == SongText(TRUE, 240, 4, 1, FALSE, FALSE, <<FileEvent(0, 0)>>)
\* A one-beat loop of one clip.
LoopSong == SongText(TRUE, 240, 1, 1, TRUE, FALSE, <<FileEvent(0, 0)>>)
\* Two bars of two beats, played once: a clip on beat 0 and a note of one
\* beat on beat 1.
TwoBarSong ==
    SongText(TRUE, 240, 2, 2, FALSE, TRUE,
             <<FileEvent(0, 0), NoteEvent(BeatUnit, BeatUnit)>>)
\* A note but no instrument, after a clip; beatsPerBar and bars not positive.
NoInstrumentSong ==
    SongText(TRUE, 0, 0, 0, TRUE, FALSE, <<FileEvent(0, 0), NoteEvent(0, 0)>>)
\* Two clips, no tempo.
TwoClipSong ==
    SongText(TRUE, 0, 4, 1, TRUE, FALSE, <<FileEvent(0, 0), FileEvent(BeatUnit, 0)>>)
\* Two notes on beat 0, the first without a duration; no tempo.
ShortNoteSong ==
    SongText(TRUE, 0, 4, 1, TRUE, TRUE, <<NoteEvent(0, 0), NoteEvent(0, BeatUnit)>>)
\* A looping clip, beatsPerBar and bars not positive.
NoGeometrySong == SongText(TRUE, 240, 0, -1, TRUE, FALSE, <<FileEvent(0, 0)>>)
\* One note of half a beat on beat 0, played once; no tempo.
OneNoteSong ==
    SongText(TRUE, 0, 4, 1, FALSE, TRUE, <<NoteEvent(0, BeatUnit \div 2)>>)
\* A tempo but no event.
NoEventSong == SongText(TRUE, 60, 4, 1, TRUE, FALSE, <<>>)
\* A file that cannot be read.
UnreadableSong == SongText(FALSE, 0, 4, 1, TRUE, FALSE, <<>>)

SongFiles ==
    {OneBarSong, LoopSong, TwoBarSong, NoInstrumentSong, NoEventSong,
     UnreadableSong}

\* An override that stores the tempo and keeps the old anchor.
LoadTempoKeepsAnchor(t, bpm, n) == [t EXCEPT !.bpm = bpm]

\* The tempo override of gm_audio_song_load_file.
LoadTempo(t, bpm, n) ==
    LET current == transport_get_beat_unlocked(t, n)
    IN  IF t.playing
        THEN [t EXCEPT !.bpm = bpm, !.baseBeat = current, !.startTime = n]
        ELSE [t EXCEPT !.bpm = bpm, !.baseBeat = 0]

\* A SongEvent as the loader builds it (active = true, nextBeat = 0).
LoadedEvent(ev, snd) ==
    [sound |-> snd, note |-> ev.note, offsetBeat |-> ev.offsetBeat,
     nextBeat |-> 0, dur |-> ev.dur, active |-> TRUE]

\* No sound at all: nothing is given back.
NoEventSounds(evs) == <<>>

\* The sounds of a vector of SongEvent, in order.
EventSounds(evs) == [i \in DOMAIN evs |-> evs[i].sound]

RECURSIVE LoadEvents(_, _, _, _, _, _)
\* The loop over the parsed events: acc is loadedEvents, alloc the allocated
\* pointers, failAt the index of an event whose clip cannot be created.
\* Yields [ok, full, events, alloc]; on failure events are those built so
\* far.  full: new ma_sound() went past the model's bound.
LoadEvents(evs, i, acc, alloc, instr, failAt) ==
    LET result(ok, full) ==
            [ok |-> ok, full |-> full, events |-> acc, alloc |-> alloc]
    IN
    IF i > Len(evs) THEN result(TRUE, FALSE)
    ELSE IF evs[i].note THEN
            IF ~instr THEN result(FALSE, FALSE)
            ELSE LoadEvents(evs, i + 1, Append(acc, LoadedEvent(evs[i], NullPtr)),
                            alloc, instr, failAt)
    ELSE IF i = failAt THEN result(FALSE, FALSE)
    ELSE IF ~CanNew(alloc) THEN result(FALSE, TRUE)
    ELSE LoadEvents(evs, i + 1, Append(acc, LoadedEvent(evs[i], NewPtr(alloc))),
                    alloc \cup {NewPtr(alloc)}, instr, failAt)

\* The song as the file gives it, beatsPerBar and bars unchecked.
LoadedSongAsParsed(txt, evs) ==
    [loaded |-> TRUE, loop |-> txt.loop, beatsPerBar |-> txt.beatsPerBar,
     bars |-> txt.bars, startBeat |-> 0, events |-> evs]

\* gSong as the loader fills it on success.
LoadedSong(txt, evs) ==
    [loaded |-> TRUE, loop |-> txt.loop,
     beatsPerBar |-> IF txt.beatsPerBar > 0 THEN txt.beatsPerBar
                     ELSE DefaultBeatsPerBar,
     bars |-> IF txt.bars > 0 THEN txt.bars ELSE DefaultBars,
     startBeat |-> 0, events |-> evs]

gm_audio_song_load_file(txt, failAt) ==
    /\ Running
    /\ UNCHANGED pc
    /\ IF ~gEngineIniciado \/ ~txt.readable THEN
          /\ last' = [NoLog("song_load", 0) EXCEPT !.phase = "read"]
          /\ UNCHANGED <<prog, now>>
       ELSE
          LET t1 == IF txt.bpm > 0 THEN LoadTempo(gTransport, txt.bpm, now)
                    ELSE gTransport
          IN  IF txt.events = <<>> THEN
                 /\ gTransport' = t1
                 /\ last' = [NoLog("song_load", 0) EXCEPT
                                 !.arg = txt.bpm, !.beat = Beat,
                                 !.phase = "events"]
                 /\ UNCHANGED <<gEngineIniciado, gSounds, gNextId, gQueue,
                                gActiveVoices, gPendingStops, gPendingDelete,
                                gSong, now, allocated, crashed>>
              ELSE
                 LET pd1 == ScheduleAll(gPendingDelete, EventSounds(gSong.events))
                     r == LoadEvents(txt.events, 1, <<>>, allocated,
                                     txt.instrument, failAt)
                 IN  /\ ~r.full
                     /\ gTransport' = t1
                     /\ allocated' = r.alloc
                     /\ IF r.ok THEN
                           /\ gSong' = LoadedSong(txt, r.events)
                           /\ gPendingDelete' = pd1
                           /\ last' = [NoLog("song_load", 1) EXCEPT
                                           !.arg = txt.bpm, !.beat = Beat,
                                           !.phase = "done"]
                        ELSE
                           /\ gSong' = EmptySong
                           /\ gPendingDelete' = ScheduleAll(pd1, EventSounds(r.events))
                           /\ last' = [NoLog("song_load", 0) EXCEPT
                                           !.arg = txt.bpm, !.beat = Beat,
                                           !.phase = "build"]
                     /\ UNCHANGED <<gEngineIniciado, gSounds, gNextId, gQueue,
                                    gActiveVoices, gPendingStops, now, crashed>>

\* ----------------------------------------------------- song: play and stop
\* A start that always waits for the beat after the current one.
StartBeatAfter(nowBeat) == (nowBeat \div BeatUnit + 1) * BeatUnit

\* const double start = std::ceil(nowBeat);
StartBeat(nowBeat) == Ceil(nowBeat, BeatUnit) * BeatUnit

\* Rearm of every event by gm_audio_song_play, the song starting at start.
ArmSong(song, start) ==
    [song EXCEPT !.startBeat = start,
                 !.events = [i \in DOMAIN song.events |->
                     [song.events[i] EXCEPT !.active = TRUE,
                                            !.nextBeat = start + song.events[i].offsetBeat]]]

gm_audio_song_play ==
    /\ Running
    /\ UNCHANGED pc
    /\ IF ~gEngineIniciado \/ ~gSong.loaded THEN
          /\ last' = NoLog("song_play", 0)
          /\ UNCHANGED <<prog, now>>
       ELSE
          LET t1 == TransportPlay(gTransport, now)
              nowBeat == transport_get_beat_unlocked(t1, now)
              start == StartBeat(nowBeat)
          IN  /\ gTransport' = t1
              /\ gSong' = ArmSong(gSong, start)
              /\ last' = [NoLog("song_play", 1) EXCEPT !.beat = nowBeat]
              /\ UNCHANGED <<gEngineIniciado, gSounds, gNextId, gQueue,
                             gActiveVoices, gPendingStops, gPendingDelete, now,
                             allocated, crashed>>

\* A stop that leaves the events as they are.
KeepSongArmed(song) == song

\* The events after gm_audio_song_stop.
DisarmSong(song) ==
    [song EXCEPT !.events = [i \in DOMAIN song.events |->
                     [song.events[i] EXCEPT !.active = FALSE, !.nextBeat = 0]]]

\* No check of gEngineIniciado in the source.
gm_audio_song_stop ==
    /\ Running
    /\ UNCHANGED pc
    /\ IF ~gSong.loaded THEN
          /\ last' = NoLog("song_stop", 1)
          /\ UNCHANGED <<prog, now>>
       ELSE
          /\ gSong' = DisarmSong(gSong)
          /\ gPendingDelete' = ScheduleVoices(gPendingDelete, gPendingStops, gActiveVoices)
          /\ gPendingStops' = <<>>
          /\ gActiveVoices' = <<>>
          /\ last' = [NoLog("song_stop", 1) EXCEPT !.stopped =
                (Range(EventSounds(gSong.events)) \ {NullPtr})
                \cup Range(StopVoices(gPendingStops))
                \cup Range(VoiceSounds(gActiveVoices))]
          /\ UNCHANGED <<gEngineIniciado, gSounds, gNextId, gTransport, gQueue,
                         now, allocated, crashed>>

\* No check of gEngineIniciado in the source.
\* A loop switch that also wakes every event up.
SetLoopRearms(flag) ==
    /\ Running
    /\ UNCHANGED pc
    /\ gSong.loaded
    /\ gSong' = [gSong EXCEPT
                   !.loop = flag,
                   !.events = [i \in DOMAIN gSong.events |->
                                 [gSong.events[i] EXCEPT !.active = TRUE]]]
    /\ last' = NoLog("song_set_loop", 1)
    /\ UNCHANGED <<gEngineIniciado, gSounds, gNextId, gTransport, gQueue,
                   gActiveVoices, gPendingStops, gPendingDelete, now,
                   allocated, crashed>>

gm_audio_song_set_loop(flag) ==
    /\ Running
    /\ UNCHANGED pc
    /\ IF ~gSong.loaded THEN
          /\ last' = NoLog("song_set_loop", 0)
          /\ UNCHANGED <<prog, now>>
       ELSE
          /\ gSong' = [gSong EXCEPT !.loop = flag]
          /\ last' = NoLog("song_set_loop", 1)
          /\ UNCHANGED <<gEngineIniciado, gSounds, gNextId, gTransport, gQueue,
                         gActiveVoices, gPendingStops, gPendingDelete, now,
                         allocated, crashed>>

\* ------------------------------------------------------------------ tick
\* beat + 1e-6 >= target
IsDueStrictly(beat, target) == beat > target

\* beat + 1e-6 >= target
IsDue(beat, target) == beat + Eps >= target

\* The queue left as it is: a due launch is started but not erased.
KeepLaunches(q, beat) == q

\* The ids of the queue entries a tick at this beat erases, in queue order.
DueLaunches(q, beat) ==
    LET d == SelectSeq(q, LAMBDA e : IsDue(beat, e.targetBeat))
    IN  [i \in DOMAIN d |-> d[i].id]

\* The queue a tick at this beat leaves.
KeptLaunches(q, beat) == SelectSeq(q, LAMBDA e : ~IsDue(beat, e.targetBeat))

\* if (ev.dur > 1e-9): a duration is a whole number of 1e-6 beat.
HasDuration(dur) == dur > 0

\* One firing of event i at a tick that read beat.  st carries the state
\* the event loop changes: events, av (gActiveVoices), ps (gPendingStops),
\* alloc (allocated), id (gNextId), on (sounds started), fired (history),
\* full (new ma_sound() or makeId() went past the model's bounds).
\* voiceOk: the note resolves and ma_sound_init_from_file succeeds.
FireEvent(st, i, beat, voiceOk) ==
    LET ev == st.events[i]
        v == NewPtr(st.alloc)
    IN  IF ev.sound # NullPtr THEN [st EXCEPT !.on = @ \cup {ev.sound}]
        ELSE IF ev.note /\ voiceOk THEN
            IF ~CanNew(st.alloc) \/ st.id > MaxId THEN [st EXCEPT !.full = TRUE]
            ELSE
            [st EXCEPT !.av = Append(@, [sound |-> v, id |-> st.id]),
                       !.ps = IF HasDuration(ev.dur)
                              THEN Append(@, [voice |-> v,
                                              endBeat |-> beat + ev.dur])
                              ELSE @,
                       !.on = @ \cup {v},
                       !.alloc = @ \cup {v},
                       !.id = @ + 1]
        ELSE st

\* The end test without the tolerance: an event advanced to exactly the
\* song's length is finished.
PastSongEndAtLength(song, nextBeat) ==
    /\ ~song.loop
    /\ nextBeat - song.startBeat >= song.beatsPerBar * song.bars * BeatUnit

\* if (!gSong.loop && (ev.nextBeat - gSong.startBeat) >= songLenBeats + 1e-6)
PastSongEnd(song, nextBeat) ==
    /\ ~song.loop
    /\ nextBeat - song.startBeat >= song.beatsPerBar * song.bars * BeatUnit + Eps

\* An "if" in the place of the "while": at most one firing per tick.
WhileDueOnce(st, i, beat, voiceOk) ==
    LET ev == st.events[i]
    IN  IF IsDue(beat, ev.nextBeat) THEN
            LET s1 == FireEvent(st, i, beat, voiceOk)
                nb == ev.nextBeat + gSong.beatsPerBar * BeatUnit
                s2 == [s1 EXCEPT !.events[i].nextBeat = nb,
                                 !.fired[i] = Append(@, ev.nextBeat)]
            IN  IF PastSongEnd(gSong, nb)
                THEN [s2 EXCEPT !.events[i].active = FALSE]
                ELSE s2
        ELSE st

RECURSIVE WhileDue(_, _, _, _)
\* while (beat + 1e-6 >= ev.nextBeat) { fire; advance; maybe deactivate }
WhileDue(st, i, beat, voiceOk) ==
    LET ev == st.events[i]
    IN  IF IsDue(beat, ev.nextBeat) THEN
            LET s1 == FireEvent(st, i, beat, voiceOk)
                nb == ev.nextBeat + gSong.beatsPerBar * BeatUnit
                s2 == [s1 EXCEPT !.events[i].nextBeat = nb,
                                 !.fired[i] = Append(@, ev.nextBeat)]
            IN  IF PastSongEnd(gSong, nb)
                THEN [s2 EXCEPT !.events[i].active = FALSE]
                ELSE WhileDue(s2, i, beat, voiceOk)
        ELSE st

RECURSIVE ScanEvents(_, _, _, _)
\* for (auto& ev : gSong.events) { if (!ev.active) continue; while ... }
ScanEvents(st, i, beat, voiceOk) ==
    IF i > Len(st.events) THEN st
    ELSE ScanEvents(IF st.events[i].active THEN WhileDue(st, i, beat, voiceOk)
                    ELSE st,
                    i + 1, beat, voiceOk)

\* The entries of gActiveVoices with the sound h (vit->sound == it->voice).
VoiceEntries(av, h) == {j \in DOMAIN av : av[j].sound = h}

\* The pending stops left as they are.
KeepStops(ps, beat) == ps

\* The pending stops a tick at this beat resolves, and those it keeps.
DueStops(ps, beat) == SelectSeq(ps, LAMBDA p : IsDue(beat, p.endBeat))
KeptStops(ps, beat) == SelectSeq(ps, LAMBDA p : ~IsDue(beat, p.endBeat))

\* The active voices left as they are.
KeepVoices(av, voices) == av

\* gActiveVoices without the entries whose sound is one of the voices.
EraseVoices(av, voices) == SelectSeq(av, LAMBDA a : a.sound \notin voices)

\* The pointers the flush of a tick deletes.
ToFlush(pd) == {h \in DOMAIN pd : pd[h] > 0}

\* The flush of pd deletes some pointer twice, or one that is not allocated.
DoubleDelete(pd, alloc) ==
    \E h \in DOMAIN pd : pd[h] > 1 \/ (pd[h] > 0 /\ h \notin alloc)

gm_audio_transport_tick(voiceOk) ==
    /\ Running
    /\ UNCHANGED pc
    /\ IF ~gEngineIniciado THEN
          /\ last' = NoLog("tick", 0)
          /\ UNCHANGED <<prog, now>>
       ELSE IF ~gTransport.playing THEN
          /\ last' = [NoLog("tick", 1) EXCEPT !.beat = Beat]
          /\ UNCHANGED <<prog, now>>
       ELSE
          LET beat == Beat
              due == DueLaunches(gQueue, beat)
              rel == SelectSeq(due, LAMBDA id : id \in DOMAIN gSounds)
              on1 == {gSounds[id] : id \in Range(rel)}
              \* pending stops, only with a song loaded
              stops == IF gSong.loaded THEN DueStops(gPendingStops, beat) ELSE <<>>
              voices == Range(StopVoices(stops)) \ {NullPtr}
              pd1 == ScheduleAll(gPendingDelete, StopVoices(stops))
              st0 == [events |-> gSong.events,
                      av |-> EraseVoices(gActiveVoices, voices),
                      ps |-> IF gSong.loaded THEN KeptStops(gPendingStops, beat)
                             ELSE gPendingStops,
                      alloc |-> allocated, id |-> gNextId, full |-> FALSE,
                      on |-> on1,
                      fired |-> [i \in DOMAIN gSong.events |-> <<>>]]
              st == IF gSong.loaded THEN ScanEvents(st0, 1, beat, voiceOk) ELSE st0
          IN  /\ ~st.full
              /\ gQueue' = KeptLaunches(gQueue, beat)
              /\ gSong' = [gSong EXCEPT !.events = st.events]
              /\ gActiveVoices' = st.av
              /\ gPendingStops' = st.ps
              /\ gNextId' = st.id
              \* the deferred destruction: stop, uninit, delete
              /\ allocated' = st.alloc \ ToFlush(pd1)
              /\ gPendingDelete' = [h \in DOMAIN pd1 |-> 0]
              \* deleting a pointer twice is undefined: the process goes on or dies
              /\ crashed' \in (IF DoubleDelete(pd1, st.alloc) THEN BOOLEAN
                               ELSE {FALSE})
              /\ last' = [op |-> "tick", ret |-> 1, arg |-> 0, phase |-> "",
                          beat |-> beat,
                          started |-> st.on,
                          stopped |-> voices \cup ToFlush(pd1),
                          due |-> due, rel |-> rel, fired |-> st.fired,
                          flushed |-> ToFlush(pd1),
                          badDelete |-> DoubleDelete(pd1, st.alloc)]
              /\ UNCHANGED <<gEngineIniciado, gSounds, gTransport, now>>

\* -------------------------------------------------------------- shutdown
gm_audio_shutdown ==
    /\ Running
    /\ UNCHANGED pc
    /\ IF ~gEngineIniciado THEN
          /\ last' = NoLog("shutdown", 1)
          /\ UNCHANGED <<prog, now>>
       ELSE
          /\ gPendingDelete' =
                ScheduleAll(
                  ScheduleAll(ScheduleMap(gPendingDelete, gSounds),
                              EventSounds(gSong.events)),
                  VoiceSounds(gActiveVoices))
          /\ gSounds' = <<>>
          /\ gQueue' = <<>>
          /\ gSong' = EmptySong
          /\ gActiveVoices' = <<>>
          /\ gPendingStops' = <<>>
          /\ gEngineIniciado' = FALSE
          /\ last' = [NoLog("shutdown", 1) EXCEPT !.stopped =
                Range(VoiceSounds(gActiveVoices))]
          /\ UNCHANGED <<gNextId, gTransport, now, allocated, crashed>>

\* ------------------------------------------------------------------ Next
\* Every call, with every input of the model.
Next ==
    \/ \E d \in AdvanceSteps : Advance(d)
    \/ \E ok \in BOOLEAN : gm_audio_init(ok)
    \/ gm_audio_shutdown
    \/ gm_audio_transport_play
    \/ gm_audio_transport_pause
    \/ gm_audio_transport_stop
    \/ \E bpm \in Tempos : gm_audio_set_tempo(bpm)
    \/ \E ok \in BOOLEAN : gm_audio_play(ok)
    \/ \E id \in 1..MaxId : gm_audio_stop(id)
    \/ \E ok \in BOOLEAN, q \in Quanta : gm_audio_play_on_beat(ok, q)
    \/ \E txt \in SongFiles, failAt \in 0..1 : gm_audio_song_load_file(txt, failAt)
    \/ gm_audio_song_play
    \/ gm_audio_song_stop
    \/ \E flag \in BOOLEAN : gm_audio_song_set_loop(flag)
    \/ \E ok \in BOOLEAN : gm_audio_transport_tick(ok)

Spec == Init /\ [][Next]_vars

\* The calls of Next are too many to explore together within the bounds; each
\* specification below makes the calls of one part of the program, with the
\* inputs named in it, from the same Init and with the same actions.

\* The beat clock: play, pause, stop and tempo, at quarter and half seconds.
NextTransport ==
    \/ \E d \in AdvanceSteps : Advance(d)
    \/ \E ok \in BOOLEAN : gm_audio_init(ok)
    \/ gm_audio_transport_play
    \/ gm_audio_transport_pause
    \/ gm_audio_transport_stop
    \/ \E bpm \in Tempos : gm_audio_set_tempo(bpm)

SpecTransport == Init /\ [][NextTransport]_vars

\* The quantized launch queue and the basic table, the clock moving by half
\* a beat of the default tempo.
NextLaunch ==
    \/ Advance(ClockPeriod \div 2)
    \/ gm_audio_init(TRUE)
    \/ gm_audio_shutdown
    \/ gm_audio_transport_play
    \/ gm_audio_transport_stop
    \/ gm_audio_play(TRUE)
    \/ \E id \in 1..MaxId : gm_audio_stop(id)
    \/ \E ok \in BOOLEAN, q \in Quanta : gm_audio_play_on_beat(ok, q)
    \/ gm_audio_transport_tick(TRUE)

SpecLaunch == Init /\ [][NextLaunch]_vars

\* The song sequencer: three songs loaded, played and ticked.
NextSong ==
    \/ Advance(ClockPeriod)
    \/ gm_audio_init(TRUE)
    \/ \E txt \in {OneBarSong, LoopSong, TwoBarSong} :
          gm_audio_song_load_file(txt, 0)
    \/ gm_audio_song_play
    \/ \E flag \in BOOLEAN : gm_audio_song_set_loop(flag)
    \/ \E ok \in BOOLEAN : gm_audio_transport_tick(ok)

SpecSong == Init /\ [][NextSong]_vars

\* Stopping the transport with a launch queued and a note voice sounding.
NextStop ==
    \/ Advance(ClockPeriod)
    \/ gm_audio_init(TRUE)
    \/ gm_audio_song_load_file(TwoBarSong, 0)
    \/ gm_audio_song_play
    \/ gm_audio_play_on_beat(TRUE, BeatUnit)
    \/ gm_audio_transport_play
    \/ gm_audio_transport_stop
    \/ gm_audio_transport_tick(TRUE)

SpecStop == Init /\ [][NextStop]_vars

\* The life cycle: calls made before gm_audio_init, between it and
\* gm_audio_shutdown, and after.
NextLifecycle ==
    \/ Advance(ClockPeriod)
    \/ \E ok \in BOOLEAN : gm_audio_init(ok)
    \/ gm_audio_shutdown
    \/ gm_audio_transport_play
    \/ \E bpm \in Tempos : gm_audio_set_tempo(bpm)
    \/ gm_audio_play(TRUE)
    \/ gm_audio_song_load_file(OneBarSong, 0)
    \/ gm_audio_song_play
    \/ gm_audio_song_stop
    \/ gm_audio_song_set_loop(TRUE)
    \/ gm_audio_transport_tick(TRUE)

SpecLifecycle == Init /\ [][NextLifecycle]_vars

\* Tempo: the two calls that write gTransport.bpm, on a transport that is
\* started and paused.
NextTempo ==
    \/ \E d \in AdvanceSteps : Advance(d)
    \/ gm_audio_init(TRUE)
    \/ gm_audio_transport_play
    \/ gm_audio_transport_pause
    \/ \E bpm \in Tempos : gm_audio_set_tempo(bpm)
    \/ \E txt \in {OneBarSong, NoEventSong, NoInstrumentSong, UnreadableSong} :
          gm_audio_song_load_file(txt, 0)

SpecTempo == Init /\ [][NextTempo]_vars

\* Loading: songs that load and songs that fail on their first or second
\* event, over a song already loaded or none.
NextLoad ==
    \/ Advance(ClockPeriod)
    \/ gm_audio_init(TRUE)
    \/ \E txt \in {OneBarSong, TwoClipSong, NoInstrumentSong, NoEventSong},
          failAt \in 0..2 : gm_audio_song_load_file(txt, failAt)
    \/ gm_audio_song_play
    \/ gm_audio_song_set_loop(FALSE)
    \/ gm_audio_transport_tick(TRUE)

SpecLoad == Init /\ [][NextLoad]_vars

\* Ids: the three callers of makeId(), with sounds stopped and the engine
\* shut down and initialised again in between; the clock makes one jump of
\* MaxNow, which brings every queued launch and every song event due.
NextIds ==
    \/ Advance(MaxNow)
    \/ gm_audio_init(TRUE)
    \/ gm_audio_shutdown
    \/ gm_audio_play(TRUE)
    \/ gm_audio_play_on_beat(TRUE, BeatUnit)
    \/ \E id \in 1..MaxId : gm_audio_stop(id)
    \/ gm_audio_song_load_file(TwoBarSong, 0)
    \/ gm_audio_song_play
    \/ gm_audio_transport_tick(TRUE)

SpecIds == Init /\ [][NextIds]_vars

\* References: every call that schedules a deletion, and the tick that
\* flushes them; the clock makes one jump of MaxNow, past the end of every
\* voice spawned before it.
NextRefs ==
    \/ Advance(MaxNow)
    \/ gm_audio_init(TRUE)
    \/ gm_audio_shutdown
    \/ gm_audio_play_on_beat(TRUE, BeatUnit)
    \/ \E id \in 1..MaxId : gm_audio_stop(id)
    \/ \E failAt \in 0..1 : gm_audio_song_load_file(TwoBarSong, failAt)
    \/ gm_audio_song_play
    \/ gm_audio_song_stop
    \/ gm_audio_transport_stop
    \/ gm_audio_transport_tick(TRUE)

SpecRefs == Init /\ [][NextRefs]_vars

\* The clock alone: play, pause and tempo, with ticks and time in between.
NextClock ==
    \/ \E d \in AdvanceSteps : Advance(d)
    \/ gm_audio_init(TRUE)
    \/ gm_audio_transport_play
    \/ gm_audio_transport_pause
    \/ \E bpm \in {SecondsPerMinute, DefaultBpm} : gm_audio_set_tempo(bpm)
    \/ gm_audio_transport_tick(TRUE)

SpecClock == Init /\ [][NextClock]_vars

\* Voices: notes with and without a duration, spawned by the tick and taken
\* away by the tick, the stops, the shutdown and the loader.
NextVoices ==
    \/ Advance(ClockPeriod)
    \/ gm_audio_init(TRUE)
    \/ gm_audio_shutdown
    \/ \E txt \in {TwoBarSong, ShortNoteSong}, failAt \in 0..1 :
          gm_audio_song_load_file(txt, failAt)
    \/ gm_audio_song_play
    \/ gm_audio_song_stop
    \/ gm_audio_transport_stop
    \/ \E ok \in BOOLEAN : gm_audio_transport_tick(ok)

SpecVoices == Init /\ [][NextVoices]_vars

\* Catching up: songs of one-beat and of defaulted bars, ticked after the
\* clock has moved by several bars.
NextCatchUp ==
    \/ Advance(ClockPeriod)
    \/ gm_audio_init(TRUE)
    \/ \E txt \in {LoopSong, NoGeometrySong} : gm_audio_song_load_file(txt, 0)
    \/ gm_audio_song_play
    \/ \E flag \in BOOLEAN : gm_audio_song_set_loop(flag)
    \/ gm_audio_transport_pause
    \/ gm_audio_transport_tick(TRUE)

SpecCatchUp == Init /\ [][NextCatchUp]_vars

\* Scheduled work: launches queued off the grid and voices with an end,
\* the transport started by gm_audio_song_play, with no call that stops it
\* or the engine.  The host calls
\* gm_audio_transport_tick from its step event, once a frame, and its clock
\* goes on: both are weakly fair.
NextLive ==
    \/ Advance(ClockPeriod \div 2)
    \/ gm_audio_init(TRUE)
    \/ gm_audio_play_on_beat(TRUE, BeatUnit)
    \/ gm_audio_song_load_file(OneNoteSong, 0)
    \/ gm_audio_song_play
    \/ \E ok \in BOOLEAN : gm_audio_transport_tick(ok)

SpecLive ==
    /\ Init /\ [][NextLive]_vars
    /\ WF_vars(Advance(ClockPeriod \div 2))
    /\ WF_vars(\E ok \in BOOLEAN : gm_audio_transport_tick(ok))

\* Two threads: a gm_audio_play divided by its wait for the lock, and the
\* whole calls of another thread that may run in between.
NextRace ==
    \/ Advance(ClockPeriod)
    \/ gm_audio_init(TRUE)
    \/ gm_audio_shutdown
    \/ gm_audio_play_enter
    \/ \E ok \in BOOLEAN : gm_audio_play_locked(ok)
    \/ \E id \in 1..MaxId : gm_audio_stop(id)
    \/ gm_audio_transport_play
    \/ gm_audio_transport_tick(TRUE)

SpecRace == Init /\ [][NextRace]_vars

\* Replay: a song played to its end, and every call that may follow.
NextReplay ==
    \/ Advance(ClockPeriod)
    \/ gm_audio_init(TRUE)
    \/ gm_audio_song_load_file(LoopSong, 0)
    \/ gm_audio_song_play
    \/ gm_audio_song_stop
    \/ \E flag \in BOOLEAN : gm_audio_song_set_loop(flag)
    \/ gm_audio_transport_play
    \/ gm_audio_transport_stop
    \/ gm_audio_transport_tick(TRUE)

SpecReplay == Init /\ [][NextReplay]_vars

\* ================================================================ claims
\* ----------------------------------------------------------------- C1
\* C1 (reclaim safety): every sound handle is destroyed at most once over the
\* lifetime of the engine; in particular gm_audio_song_stop,
\* gm_audio_transport_stop and the pending stops of a tick place a handle in
\* the deferred-delete list at most once, and no flush deletes a handle a
\* second time.
C1_ReclaimSafety ==
    /\ \A h \in Handles : gPendingDelete[h] <= 1
    /\ ~last.badDelete
    /\ ~crashed

\* A tick whose flush has deleted some handle twice.
C1_DoubleDeleteReached == last.op = "tick" /\ last.badDelete

\* ----------------------------------------------------------------- C2
\* C2 (phase continuity): for every bpm > 0, the beat position read right
\* after gm_audio_set_tempo(bpm) is the beat position read right before it,
\* whether the transport is playing or paused; a call with bpm <= 0 is
\* refused and changes nothing either.
C2_PhaseContinuity ==
    last.op = "set_tempo" =>
        /\ Beat = last.beat
        /\ last.ret = (IF last.arg > 0 THEN 1 ELSE 0)
        /\ last.ret = 1 => gTransport.bpm = last.arg

\* The tempo was changed while the transport was playing, with beats
\* already elapsed since its anchor.
C2_TempoChangedWhilePlaying ==
    /\ last.op = "set_tempo" /\ last.ret = 1
    /\ gTransport.playing
    /\ gTransport.bpm = 60
    /\ last.beat > 0
    /\ gTransport.startTime = now /\ now > 0

\* ----------------------------------------------------------------- C8
\* C8 (idempotence): a gm_audio_transport_play made right after a successful
\* gm_audio_transport_play leaves the whole program state as the first call
\* left it, and so does a gm_audio_transport_pause made right after a
\* successful gm_audio_transport_pause: the second call neither resets
\* baseBeat nor moves the anchor, and it returns success as well.
C8_PlayPauseIdempotent ==
    [][ /\ (last.op = "transport_play" /\ last.ret = 1
            /\ last'.op = "transport_play")
           => (prog' = prog /\ last'.ret = 1 /\ Beat' = Beat)
        /\ (last.op = "transport_pause" /\ last.ret = 1
            /\ last'.op = "transport_pause")
           => (prog' = prog /\ last'.ret = 1 /\ Beat' = Beat) ]_vars

\* The transport was paused after beats had elapsed: a second pause is due
\* to leave baseBeat where the first one put it.
C8_PausedAfterBeats ==
    /\ last.op = "transport_pause" /\ last.ret = 1
    /\ ~gTransport.playing
    /\ gTransport.baseBeat > 0

\* ----------------------------------------------------------------- C3
\* C3 (quantization): the target beat gm_audio_play_on_beat stores is the
\* smallest multiple of q that is >= the beat the call read, q being the
\* quantum given, replaced by one beat when it is <= 0; when the beat is
\* already a multiple of q the target is that very beat.  The sound is
\* queued under the id returned and is not started by the call.
C3_QuantizedTarget ==
    (last.op = "play_on_beat" /\ last.ret # 0) =>
        LET q == IF last.arg <= 0 THEN BeatUnit ELSE last.arg
            e == gQueue[Len(gQueue)]
        IN  /\ Len(gQueue) >= 1
            /\ e.id = last.ret
            /\ e.targetBeat % q = 0
            /\ e.targetBeat >= last.beat
            /\ e.targetBeat - q < last.beat
            /\ last.beat % q = 0 => e.targetBeat = last.beat
            /\ last.started = {}

\* A launch asked for half a beat into the bar with quantum 0: it is aimed at
\* beat 1.
C3_OffGridLaunch ==
    /\ last.op = "play_on_beat" /\ last.ret # 0
    /\ last.arg = 0
    /\ last.beat = BeatUnit \div 2
    /\ gQueue[Len(gQueue)].targetBeat = BeatUnit

C10_StopKeepsQueuedSounds ==
    [][ /\ (last'.op = "transport_stop" /\ last'.ret = 1) =>
              /\ gQueue' = <<>>
              /\ gSounds' = gSounds
              /\ \A i \in DOMAIN gQueue :
                    gQueue[i].id \in DOMAIN gSounds =>
                       LET s == gSounds[gQueue[i].id]
                       IN  /\ gPendingDelete'[s] = gPendingDelete[s]
                           /\ s \in allocated'
                           /\ s \notin last'.stopped
        /\ last'.op = "tick" =>
              \A id \in DOMAIN gSounds :
                 gSounds[id] \in last'.started
                    => \E i \in DOMAIN gQueue : gQueue[i].id = id
        /\ \A e \in Range(gQueue') \ Range(gQueue) :
              /\ last'.op = "play_on_beat" /\ e.id = last'.ret
              /\ e.id \notin DOMAIN gSounds
        /\ \A id \in DOMAIN gSounds :
              \/ id \in DOMAIN gSounds' /\ gSounds'[id] = gSounds[id]
              \/ last'.op = "stop" /\ last'.arg = id
              \/ last'.op = "shutdown" ]_vars

\* A transport stop has dropped a queued launch whose sound is still
\* tracked, allocated and not scheduled for deletion.
C10_QueuedSoundStillTracked ==
    /\ last.op = "transport_stop" /\ last.ret = 1
    /\ last.due # <<>>
    /\ \A id \in Range(last.due) :
          /\ id \in DOMAIN gSounds
          /\ gSounds[id] \in allocated
          /\ gPendingDelete[gSounds[id]] = 0

\* ----------------------------------------------------------------- C5
\* C5 (catch-up): with a looping song loaded and the transport playing, a
\* tick that reads beat b fires every active event whose nextBeat n is
\* <= b + 1e-6 once for each of n, n + beatsPerBar, n + 2*beatsPerBar, ...
\* that is <= b + 1e-6, in increasing order and skipping none, starts its
\* sound, and leaves it active at the first grid point after b; it fires no
\* other event and leaves the others as they are.
C5_CatchUp ==
    [][ (/\ last'.op = "tick" /\ last'.ret = 1
         /\ gTransport.playing /\ gSong.loaded /\ gSong.loop) =>
          \A i \in DOMAIN gSong.events :
             LET ev == gSong.events[i]
                 b == last'.beat
                 step == gSong.beatsPerBar * BeatUnit
                 k == (b + Eps - ev.nextBeat) \div step + 1
             IN  IF ev.active /\ ev.nextBeat <= b + Eps
                 THEN /\ last'.fired[i] =
                            [j \in 1..k |-> ev.nextBeat + (j - 1) * step]
                      /\ gSong'.events[i] =
                            [ev EXCEPT !.nextBeat = ev.nextBeat + k * step]
                      /\ ev.sound # NullPtr => ev.sound \in last'.started
                 ELSE /\ last'.fired[i] = <<>>
                      /\ gSong'.events[i] = ev ]_vars

\* beatsPerBar = 1: a tick at beat 4, the one before it having been at beat
\* 0, has fired the event at beats 1, 2, 3 and 4.
C5_FourFiringsInOneTick ==
    /\ last.op = "tick" /\ last.ret = 1
    /\ gSong.loaded /\ gSong.loop /\ gSong.beatsPerBar = 1
    /\ last.beat = 4 * BeatUnit
    /\ last.fired = <<<<BeatUnit, 2 * BeatUnit, 3 * BeatUnit, 4 * BeatUnit>>>>
    /\ gSong.events[1].nextBeat = 5 * BeatUnit

\* ----------------------------------------------------------------- C6
\* C6 as stated: after any successful tick, no active event of a non-looping
\* song has nextBeat - startBeat >= beatsPerBar * bars.
C6_NoActiveEventAtLength ==
    (last.op = "tick" /\ last.ret = 1 /\ gSong.loaded /\ ~gSong.loop) =>
        \A i \in DOMAIN gSong.events :
            gSong.events[i].active =>
                gSong.events[i].nextBeat - gSong.startBeat
                    < gSong.beatsPerBar * gSong.bars * BeatUnit

\* C6 (amended): an event of a non-looping song that a tick has fired is
\* deactivated in that tick if and only if the tick advanced it to
\* nextBeat - startBeat >= beatsPerBar * bars + 1e-6; an event advanced to
\* exactly beatsPerBar * bars stays active.  An event of a looping song that
\* a tick has fired stays active.
C6_DeactivatedPastLength ==
    (last.op = "tick" /\ last.ret = 1 /\ gSong.loaded) =>
        \A i \in DOMAIN last.fired :
            last.fired[i] # <<>> =>
                (gSong.events[i].active <=>
                    (\/ gSong.loop
                     \/ gSong.events[i].nextBeat - gSong.startBeat
                           < gSong.beatsPerBar * gSong.bars * BeatUnit + Eps))

\* A tick has fired an event of a non-looping song and deactivated it.
C6_FiredAndDeactivated ==
    /\ last.op = "tick" /\ last.ret = 1
    /\ gSong.loaded /\ ~gSong.loop
    /\ \E i \in DOMAIN last.fired :
          /\ last.fired[i] # <<>>
          /\ ~gSong.events[i].active
          /\ gSong.events[i].nextBeat - gSong.startBeat
                >= gSong.beatsPerBar * gSong.bars * BeatUnit + Eps

\* ----------------------------------------------------------------- C7
\* C7 (one-bar scenario): with a song of beatsPerBar = 4, bars = 1,
\* loop = false and one event at offsetBeat 0 loaded, gm_audio_song_play at
\* beat 0 sets startBeat = 0 and arms the event at beat 0; a tick at beat 0
\* fires it exactly once and leaves it active with nextBeat = 4; a tick at
\* beat 4 fires it exactly once more and deactivates it; a tick that finds it
\* deactivated does not fire it and leaves it deactivated.
C7_OneBarScenario ==
    [][ LET bar == 4 * BeatUnit
            ev == gSong.events[1]
            after == gSong'.events[1]
        IN  (/\ gSong.loaded /\ gSong.beatsPerBar = 4 /\ gSong.bars = 1
             /\ ~gSong.loop /\ Len(gSong.events) = 1 /\ ev.offsetBeat = 0) =>
              /\ (last'.op = "song_play" /\ last'.ret = 1 /\ last'.beat = 0) =>
                    /\ gSong'.startBeat = 0
                    /\ after.active /\ after.nextBeat = 0
              /\ (/\ last'.op = "tick" /\ last'.ret = 1
                  /\ gTransport.playing /\ gSong.startBeat = 0) =>
                    /\ (ev.active /\ ev.nextBeat = 0 /\ last'.beat = 0) =>
                          /\ last'.fired = << <<0>> >>
                          /\ ev.sound \in last'.started
                          /\ after.active /\ after.nextBeat = bar
                    /\ (ev.active /\ ev.nextBeat = bar /\ last'.beat = bar) =>
                          /\ last'.fired = << <<bar>> >>
                          /\ ev.sound \in last'.started
                          /\ ~after.active
                    /\ ~ev.active =>
                          /\ last'.fired = << <<>> >>
                          /\ ~after.active ]_vars

\* The tick at beat 4 has fired the event for the second time and
\* deactivated it.
C7_SecondFiringDeactivated ==
    /\ last.op = "tick" /\ last.ret = 1
    /\ gSong.loaded /\ gSong.beatsPerBar = 4 /\ gSong.bars = 1 /\ ~gSong.loop
    /\ gSong.startBeat = 0
    /\ last.beat = 4 * BeatUnit
    /\ last.fired = << <<4 * BeatUnit>> >>
    /\ ~gSong.events[1].active

\* ----------------------------------------------------------------- C9
\* C9 (post-state of transport stop): after a successful
\* gm_audio_transport_stop the transport is not playing and the beat
\* position is 0; the launch queue, the active voices and the pending stops
\* are empty, every voice that was in one of the two lists having been
\* stopped and scheduled for deletion; and a loaded song stays loaded with
\* startBeat = 0 and every event active at nextBeat = offsetBeat, nothing
\* else of it changed.  A tick that finds the transport playing and the song
\* armed this way fires every event whose offset has come, the first time at
\* its offset, without a gm_audio_song_play.
C9_TransportStopPostState ==
    [][ /\ (/\ last'.op = "tick" /\ last'.ret = 1
            /\ gTransport.playing /\ gSong.loaded /\ gSong.startBeat = 0
            /\ \A i \in DOMAIN gSong.events :
                  /\ gSong.events[i].active
                  /\ gSong.events[i].nextBeat = gSong.events[i].offsetBeat) =>
              \A i \in DOMAIN gSong.events :
                 IF gSong.events[i].offsetBeat <= last'.beat + Eps
                 THEN /\ last'.fired[i] # <<>>
                      /\ last'.fired[i][1] = gSong.events[i].offsetBeat
                 ELSE last'.fired[i] = <<>>
        /\ (last'.op = "transport_stop" /\ last'.ret = 1) =>
          /\ ~gTransport'.playing
          /\ Beat' = 0
          /\ gQueue' = <<>>
          /\ gActiveVoices' = <<>>
          /\ gPendingStops' = <<>>
          /\ \A i \in DOMAIN gActiveVoices :
                /\ gActiveVoices[i].sound \in last'.stopped
                /\ gPendingDelete'[gActiveVoices[i].sound] >= 1
          /\ \A i \in DOMAIN gPendingStops :
                /\ gPendingStops[i].voice \in last'.stopped
                /\ gPendingDelete'[gPendingStops[i].voice] >= 1
          /\ gSong'.loaded = gSong.loaded
          /\ gSong.loaded =>
                /\ gSong'.startBeat = 0
                /\ gSong' = [gSong EXCEPT !.startBeat = 0,
                                          !.events = gSong'.events]
                /\ DOMAIN gSong'.events = DOMAIN gSong.events
                /\ \A i \in DOMAIN gSong.events :
                      gSong'.events[i] =
                         [gSong.events[i] EXCEPT
                             !.active = TRUE,
                             !.nextBeat = gSong.events[i].offsetBeat] ]_vars

\* A transport stop has dropped a queued launch and stopped a voice, with a
\* song loaded whose events are all armed at their offsets.
C9_StoppedWithVoiceAndSong ==
    /\ last.op = "transport_stop" /\ last.ret = 1
    /\ last.stopped # {}
    /\ last.due # <<>>
    /\ \A h \in last.stopped : gPendingDelete[h] >= 1
    /\ gSong.loaded /\ gSong.startBeat = 0
    /\ \A i \in DOMAIN gSong.events :
          /\ gSong.events[i].active
          /\ gSong.events[i].nextBeat = gSong.events[i].offsetBeat
    /\ Beat = 0

\* ---------------------------------------------------------------- C11
\* C11 (not initialised): while the engine is not initialised, every call
\* other than gm_audio_init and gm_audio_shutdown (transport play, pause and
\* stop, set tempo, play on beat, tick, song load, play, stop and set loop,
\* basic play) returns failure and leaves the whole program state unchanged.
C11_UninitialisedNoOp ==
    [][ (/\ ~gEngineIniciado
         /\ last'.op \in {"transport_play", "transport_pause", "transport_stop",
                          "set_tempo", "play_on_beat", "tick", "song_load",
                          "song_play", "song_stop", "song_set_loop", "play"})
          => (last'.ret = 0 /\ prog' = prog) ]_vars

\* The tempo has been changed, with success, on an engine that is not
\* initialised.
C11_TempoSetWhileUninitialised ==
    /\ ~gEngineIniciado
    /\ last.op = "set_tempo" /\ last.ret = 1
    /\ gTransport.bpm = last.arg /\ gTransport.bpm # DefaultBpm

\* ---------------------------------------------------------------- C12
\* C12 (shutdown): a gm_audio_shutdown returns success and leaves the table
\* of sounds, the launch queue, the active voices and the pending stops
\* empty and no song loaded; every handle they held is destroyed, so that a
\* tick made after the shutdown finds no handle allocated and none waiting
\* in the deferred-delete list.
C12_ShutdownReleasesAll ==
    /\ last.op = "shutdown" =>
          /\ last.ret = 1
          /\ ~gEngineIniciado
          /\ gSounds = <<>> /\ gQueue = <<>>
          /\ gActiveVoices = <<>> /\ gPendingStops = <<>>
          /\ ~gSong.loaded
    /\ (last.op = "tick" /\ ~gEngineIniciado) =>
          /\ allocated = {}
          /\ \A h \in Handles : gPendingDelete[h] = 0

\* A tick after the shutdown has returned failure and a handle is still
\* allocated, waiting in the deferred-delete list.
C12_HandleLeftAfterShutdown ==
    /\ ~gEngineIniciado
    /\ last.op = "tick" /\ last.ret = 0
    /\ \E h \in allocated : gPendingDelete[h] = 1

\* ---------------------------------------------------------------- C18
\* C18 (flush once per tick): after any tick that returns success the
\* deferred-delete list is empty, every handle that was in it having been
\* destroyed.
C18_TickFlushes ==
    (last.op = "tick" /\ last.ret = 1) =>
        /\ \A h \in Handles : gPendingDelete[h] = 0
        /\ ~last.badDelete

\* A tick has returned success on a paused transport and a stopped sound is
\* still waiting in the deferred-delete list.
C18_SuccessfulTickLeftHandle ==
    /\ gEngineIniciado
    /\ last.op = "tick" /\ last.ret = 1
    /\ ~gTransport.playing
    /\ \E h \in allocated : gPendingDelete[h] >= 1

\* ---------------------------------------------------------------- C13
\* C13 (non-positive tempo): gm_audio_set_tempo(bpm) with bpm <= 0 returns
\* failure and leaves the whole program state, tempo, baseBeat, anchor and
\* playing flag included, unchanged; and the tempo is > 0 in the initial
\* state and after every step.
C13_TempoStaysPositive ==
    /\ gTransport.bpm > 0
    /\ [][ /\ (last'.op = "set_tempo" /\ last'.arg <= 0)
                 => (last'.ret = 0 /\ prog' = prog)
            /\ gTransport'.bpm > 0 ]_vars

\* A negative tempo has been refused on a playing transport whose tempo had
\* been changed before.
C13_NegativeTempoRefused ==
    /\ last.op = "set_tempo" /\ last.arg < 0 /\ last.ret = 0
    /\ gTransport.playing
    /\ gTransport.bpm = 60

C14_LoadRollback ==
    [][ LET old == {gSong.events[i].sound : i \in DOMAIN gSong.events}
                       \ {NullPtr}
            new == allocated' \ allocated
        IN  /\ (last'.op = "song_load" /\ last'.phase = "build") =>
                  /\ last'.ret = 0
                  /\ gSong' = EmptySong
                  /\ \A h \in old \cup new : gPendingDelete'[h] = 1
                  /\ \A h \in Handles \ (old \cup new) :
                        gPendingDelete'[h] = gPendingDelete[h]
                  /\ allocated \subseteq allocated'
            /\ (~gSong.loaded /\ last'.op \in {"song_play", "song_set_loop"}) =>
                  (last'.ret = 0 /\ prog' = prog)
            /\ (~gSong.loaded /\ last'.op = "tick") =>
                  (last'.fired = <<>> /\ last'.started = {}) ]_vars

\* A load has failed while building its events and left no song loaded,
\* with two or more clips (created by it, or of the song loaded before)
\* scheduled once each.
C14_RolledBackOverOldSong ==
    /\ last.op = "song_load" /\ last.phase = "build" /\ last.ret = 0
    /\ ~gSong.loaded
    /\ Cardinality({h \in allocated : gPendingDelete[h] = 1}) >= 2

\* ---------------------------------------------------------------- C17
\* C17 (id uniqueness): the id counter starts at 1 and never goes down, not
\* in gm_audio_stop, gm_audio_shutdown or gm_audio_init either; every id a
\* step hands out (the return of gm_audio_play and gm_audio_play_on_beat, the
\* id of a voice a tick spawns) is at least the counter before the step,
\* hence positive and greater than every id handed out before, the ids of
\* one step differ from each other, and the counter moves past all of them.
C17_IdsNeverReused ==
    /\ gNextId = 1
    /\ [][ LET voices == Range(gActiveVoices') \ Range(gActiveVoices)
                voiceIds == {v.id : v \in voices}
                returned == IF last'.op \in {"play", "play_on_beat"}
                               /\ last'.ret # 0
                            THEN {last'.ret} ELSE {}
                given == voiceIds \cup returned
            IN  /\ gNextId' >= gNextId
                /\ \A id \in given : id >= gNextId /\ id < gNextId' /\ id >= 1
                /\ Cardinality(voiceIds) = Cardinality(voices)
                /\ gNextId' - gNextId = Cardinality(given)
                /\ DOMAIN gSounds' \ DOMAIN gSounds \subseteq returned
                /\ \A id \in DOMAIN gSounds' : id < gNextId'
                /\ \A i \in DOMAIN gQueue' : gQueue'[i].id < gNextId' ]_vars

\* Id 2 has been returned by gm_audio_play when id 1 was not tracked any
\* more, its sound stopped or shut down and still waiting to be deleted.
C17_SecondIdAfterRestart ==
    /\ last.op = "play" /\ last.ret = 2
    /\ DOMAIN gSounds = {2}
    /\ \E h \in allocated : gPendingDelete[h] = 1

\* ---------------------------------------------------------------- C19
\* C19 (no dangling reference): in every state, every handle the table of
\* sounds, a song event, the active voices or the pending stops refer to is
\* allocated and is not in the deferred-delete list; the sounds a tick has
\* started are still allocated after it and none of them was flushed by it;
\* and a queue entry whose id is no longer tracked is erased by the tick
\* without a sound being started for it.
C19_NoDanglingReference ==
    LET refs == {gSounds[id] : id \in DOMAIN gSounds}
                \cup ({gSong.events[i].sound : i \in DOMAIN gSong.events}
                        \ {NullPtr})
                \cup {gActiveVoices[i].sound : i \in DOMAIN gActiveVoices}
                \cup {gPendingStops[i].voice : i \in DOMAIN gPendingStops}
    IN  /\ \A h \in refs : h \in allocated /\ gPendingDelete[h] = 0
        /\ last.op = "tick" =>
              /\ last.started \subseteq allocated
              /\ last.started \cap last.flushed = {}
              /\ \A id \in Range(last.due) \ Range(last.rel) :
                    id \notin DOMAIN gSounds
              /\ Range(last.rel) \subseteq DOMAIN gSounds
              /\ \A id \in Range(last.rel) : gSounds[id] \in last.started

\* A tick has erased the queue entry of a sound the caller had stopped:
\* nothing was started for it, and the stopped sound was flushed.
C19_StoppedLaunchDropped ==
    /\ last.op = "tick" /\ last.ret = 1
    /\ Len(last.due) = 1
    /\ last.rel = <<>>
    /\ last.started = {}
    /\ last.flushed # {}

\* ---------------------------------------------------------------- C20
\* C20 as stated: an event that a tick has deactivated for passing the end
\* of the song (it is inactive with nextBeat - startBeat >= beatsPerBar *
\* bars + 1e-6) is fired by no tick and becomes active again by no call
\* other than gm_audio_song_play (a load that replaces the song aside).
C20_SilentUntilSongPlay ==
    [][ \A i \in DOMAIN gSong.events :
          (/\ ~gSong.events[i].active
           /\ gSong.events[i].nextBeat - gSong.startBeat
                 >= gSong.beatsPerBar * gSong.bars * BeatUnit + Eps) =>
             /\ (last'.op = "tick" /\ i \in DOMAIN last'.fired)
                   => last'.fired[i] = <<>>
             /\ (i \in DOMAIN gSong'.events /\ gSong'.events[i].active)
                   => last'.op \in {"song_play", "song_load"} ]_vars

\* C20 (amended): an event that a tick has deactivated for passing the end
\* of the song is fired by no tick, and stays inactive under every call
\* except the three that rearm it: gm_audio_song_play,
\* gm_audio_transport_stop (which rearms the loaded song at its origin) and
\* a gm_audio_song_load_file that replaces the song.
C20_SilentUntilRearmed ==
    [][ \A i \in DOMAIN gSong.events :
          (/\ ~gSong.events[i].active
           /\ gSong.events[i].nextBeat - gSong.startBeat
                 >= gSong.beatsPerBar * gSong.bars * BeatUnit + Eps) =>
             /\ (last'.op = "tick" /\ i \in DOMAIN last'.fired)
                   => (last'.fired[i] = <<>>
                       /\ gSong'.events[i] = gSong.events[i])
             /\ (i \in DOMAIN gSong'.events /\ gSong'.events[i].active)
                   => \/ last'.op = "song_play" /\ last'.ret = 1
                      \/ last'.op = "transport_stop" /\ last'.ret = 1
                      \/ last'.op = "song_load" /\ last'.ret = 1 ]_vars

\* A playing tick has left alone an event deactivated before it, the clock
\* being past the event's next beat and the loop flag set since.
C20_DeactivatedStaysSilent ==
    /\ last.op = "tick" /\ last.ret = 1
    /\ gTransport.playing
    /\ gSong.loaded /\ gSong.loop
    /\ \E i \in DOMAIN last.fired :
          /\ last.fired[i] = <<>>
          /\ ~gSong.events[i].active
          /\ gSong.events[i].nextBeat - gSong.startBeat
                >= gSong.beatsPerBar * gSong.bars * BeatUnit + Eps
          /\ gSong.events[i].nextBeat <= last.beat + Eps

\* ---------------------------------------------------------------- C16
\* C16: every call reads gEngineIniciado inside the critical section, so a
\* gm_audio_play that runs while another thread calls gm_audio_shutdown
\* returns a sound only on an initialised engine, and the table gSounds of
\* an engine that is not initialised holds no handle.
C16_NoSoundOnUninitialisedEngine ==
    /\ (last.op = "play" /\ last.ret > 0) => gEngineIniciado
    /\ ~gEngineIniciado => DOMAIN gSounds = {}

\* A gm_audio_play has returned an id, its handle in gSounds, on an engine
\* that a shutdown had uninitialised after the call read the flag.
C16_PlayedAfterShutdown ==
    /\ last.op = "play" /\ last.ret > 0
    /\ ~gEngineIniciado
    /\ pc = "idle"
    /\ last.ret \in DOMAIN gSounds
    /\ gSounds[last.ret] \in allocated

\* ---------------------------------------------------------------- C21
\* C21: after a successful gm_audio_song_load_file every event of the new
\* song is inactive, and a tick fires an event only at beats that
\* gm_audio_song_play armed it for: none before startBeat + offsetBeat.
C21_LoadedEventsInactive ==
    /\ (last.op = "song_load" /\ last.ret = 1) =>
          \A i \in DOMAIN gSong.events : ~gSong.events[i].active
    /\ last.op = "tick" =>
          \A i \in DOMAIN last.fired :
             \A k \in DOMAIN last.fired[i] :
                last.fired[i][k] >= gSong.startBeat + gSong.events[i].offsetBeat

\* A tick has fired, at beat 0, an event whose offset is not 0: the event
\* was as the load left it, no gm_audio_song_play having armed it.
C21_FiredAsLoaded ==
    /\ last.op = "tick" /\ last.ret = 1
    /\ \E i \in DOMAIN last.fired :
          /\ gSong.events[i].offsetBeat > 0
          /\ last.fired[i] # <<>>
          /\ Head(last.fired[i]) = 0

\* ---------------------------------------------------------------- C22
\* C22 as stated: gm_audio_song_stop on a loaded song leaves every event
\* inactive, both voice lists empty with every voice of them stopped and
\* scheduled for deletion, and the clips of the events in place, allocated
\* and not scheduled; an inactive event is fired by no tick and becomes
\* active again by no call other than gm_audio_song_play (a load that
\* replaces the song aside).
C22_SongStopUntilSongPlay ==
    [][ /\ (last'.op = "song_stop" /\ gSong.loaded) =>
              /\ last'.ret = 1
              /\ gSong'.loaded
              /\ DOMAIN gSong'.events = DOMAIN gSong.events
              /\ \A i \in DOMAIN gSong'.events :
                    /\ ~gSong'.events[i].active
                    /\ gSong'.events[i].sound = gSong.events[i].sound
                    /\ gSong'.events[i].sound # NullPtr =>
                          /\ gSong'.events[i].sound \in allocated'
                          /\ gPendingDelete'[gSong'.events[i].sound] = 0
              /\ gActiveVoices' = <<>> /\ gPendingStops' = <<>>
              /\ \A h \in Range(StopVoices(gPendingStops))
                           \cup Range(VoiceSounds(gActiveVoices)) :
                    h \in last'.stopped /\ gPendingDelete'[h] > gPendingDelete[h]
        /\ \A i \in DOMAIN gSong.events :
              ~gSong.events[i].active =>
                 /\ (last'.op = "tick" /\ i \in DOMAIN last'.fired)
                       => last'.fired[i] = <<>>
                 /\ (i \in DOMAIN gSong'.events /\ gSong'.events[i].active)
                       => last'.op \in {"song_play", "song_load"} ]_vars

\* C22 (amended): the same post-state of gm_audio_song_stop; an inactive
\* event is fired by no tick and is active again only after a successful
\* gm_audio_song_play, gm_audio_transport_stop (which rearms the loaded song
\* at its origin) or gm_audio_song_load_file.
C22_SongStopPostState ==
    [][ /\ (last'.op = "song_stop" /\ gSong.loaded) =>
              /\ last'.ret = 1
              /\ gSong'.loaded
              /\ DOMAIN gSong'.events = DOMAIN gSong.events
              /\ \A i \in DOMAIN gSong'.events :
                    /\ ~gSong'.events[i].active
                    /\ gSong'.events[i].sound = gSong.events[i].sound
                    /\ gSong'.events[i].sound # NullPtr =>
                          /\ gSong'.events[i].sound \in allocated'
                          /\ gPendingDelete'[gSong'.events[i].sound] = 0
              /\ gActiveVoices' = <<>> /\ gPendingStops' = <<>>
              /\ \A h \in Range(StopVoices(gPendingStops))
                           \cup Range(VoiceSounds(gActiveVoices)) :
                    h \in last'.stopped /\ gPendingDelete'[h] > gPendingDelete[h]
        /\ \A i \in DOMAIN gSong.events :
              ~gSong.events[i].active =>
                 /\ (last'.op = "tick" /\ i \in DOMAIN last'.fired)
                       => (last'.fired[i] = <<>>
                           /\ gSong'.events[i] = gSong.events[i])
                 /\ (i \in DOMAIN gSong'.events /\ gSong'.events[i].active)
                       => /\ last'.op \in {"song_play", "transport_stop",
                                            "song_load"}
                          /\ last'.ret = 1 ]_vars

\* gm_audio_song_stop has stopped a song with a clip and a sounding voice.
C22_StoppedSongWithVoice ==
    /\ last.op = "song_stop" /\ last.ret = 1
    /\ gSong.loaded
    /\ \E i \in DOMAIN gSong.events :
          /\ gSong.events[i].sound # NullPtr
          /\ gSong.events[i].sound \in last.stopped
    /\ \E h \in last.stopped :
          /\ h \notin Range(EventSounds(gSong.events))
          /\ gPendingDelete[h] > 0

\* ---------------------------------------------------------------- C23
\* C23: while the transport is not playing the beat position is baseBeat,
\* and the passing of time and ticks leave it as it is; a successful
\* gm_audio_transport_pause on a playing transport stops it at the beat
\* position of that instant; a successful gm_audio_transport_play on a
\* transport that is not playing starts it at the very beat position it had,
\* whatever the time spent paused; and while it plays, time moves the beat
\* position by bpm / 60 beats per second.
C23_FrozenClock ==
    [][ /\ ~gTransport.playing => Beat = gTransport.baseBeat
        /\ (~gTransport.playing /\ last'.op \in {"advance", "tick"}) =>
              (gTransport' = gTransport /\ Beat' = Beat)
        /\ (gTransport.playing /\ last'.op = "transport_pause"
             /\ last'.ret = 1) =>
              (~gTransport'.playing /\ gTransport'.baseBeat = Beat
               /\ Beat' = Beat)
        /\ (~gTransport.playing /\ last'.op = "transport_play"
             /\ last'.ret = 1) =>
              (gTransport'.playing /\ Beat' = Beat
               /\ gTransport'.bpm = gTransport.bpm)
        /\ (gTransport.playing /\ last'.op = "advance") =>
              (Beat' - Beat) * SecondsPerMinute
                 = (now' - now) * gTransport.bpm * (BeatUnit \div MsPerSecond) ]_vars

\* The transport plays again after a pause that lasted: it was paused at a
\* beat > 0, started again later than it had first been started, and is
\* now, with more time gone, past the beat of the pause.
C23_ResumedAfterPause ==
    /\ last.op = "advance"
    /\ gTransport.playing
    /\ gTransport.baseBeat > 0
    /\ gTransport.startTime > 0
    /\ (gTransport.startTime * gTransport.bpm * (BeatUnit \div MsPerSecond))
          \div SecondsPerMinute > gTransport.baseBeat
    /\ Beat > gTransport.baseBeat

\* ---------------------------------------------------------------- C24
\* C24: after every step, every voice of gPendingStops is the sound of
\* exactly one entry of gActiveVoices and has one pending stop only; and a
\* call other than the tick that empties one of the two lists is a
\* gm_audio_song_stop, a gm_audio_transport_stop or a gm_audio_shutdown and
\* leaves both empty.
C24_PendingStopsAreActive ==
    [][ /\ \A i \in DOMAIN gPendingStops' :
              /\ Cardinality(VoiceEntries(gActiveVoices',
                                          gPendingStops'[i].voice)) = 1
              /\ \A j \in DOMAIN gPendingStops' :
                    gPendingStops'[j].voice = gPendingStops'[i].voice => j = i
        /\ (last'.op # "tick"
             /\ \/ gPendingStops # <<>> /\ gPendingStops' = <<>>
                \/ gActiveVoices # <<>> /\ gActiveVoices' = <<>>) =>
              /\ last'.op \in {"song_stop", "transport_stop", "shutdown"}
              /\ gPendingStops' = <<>> /\ gActiveVoices' = <<>> ]_vars

\* Two voices sound, one of them only with a pending stop.
C24_VoiceWithoutPendingStop ==
    /\ Len(gActiveVoices) = 2
    /\ Len(gPendingStops) = 1
    /\ last.op = "tick"

\* ---------------------------------------------------------------- C25
\* C25: beatsPerBar of the song is >= 1 in every state; the firings of an
\* event in one tick are finitely many, one per bar from its nextBeat up to
\* the beat the tick read; and when a tick that scanned the song returns,
\* every event still active has nextBeat > beat + 1e-6.
C25_NothingLeftDue ==
    /\ gSong.beatsPerBar >= 1
    /\ (last.op = "tick" /\ last.ret = 1) =>
          \A i \in DOMAIN last.fired :
             /\ gSong.events[i].active =>
                   gSong.events[i].nextBeat > last.beat + Eps
             /\ \A k \in DOMAIN last.fired[i] :
                   /\ last.fired[i][k] <= last.beat + Eps
                   /\ k > 1 => last.fired[i][k] =
                         last.fired[i][k - 1] + gSong.beatsPerBar * BeatUnit
             /\ last.fired[i] # <<>> =>
                   gSong.events[i].nextBeat =
                      last.fired[i][Len(last.fired[i])]
                         + gSong.beatsPerBar * BeatUnit

\* A tick has caught up on a song loaded with beatsPerBar = 0 in its file:
\* the event fired more than once and is still active.
C25_CaughtUpOnDefaultBar ==
    /\ last.op = "tick" /\ last.ret = 1
    /\ gSong.loaded /\ gSong.bars = DefaultBars
    /\ gSong.beatsPerBar = DefaultBeatsPerBar
    /\ \E i \in DOMAIN last.fired :
          /\ Len(last.fired[i]) > 1
          /\ gSong.events[i].active

\* ---------------------------------------------------------------- C26
\* C26: with the transport playing, the clock going on and the tick called
\* again and again, every launch in gQueue whose target beat the clock
\* reaches (within MaxNow) is eventually out of the queue, and, a song being
\* loaded, every pending stop whose end beat the clock reaches is eventually
\* gone, its voice out of gActiveVoices and its handle deleted.
C26_ScheduledWorkIsDone ==
    /\ \A id \in 1..MaxId :
          (/\ gTransport.playing
           /\ \E k \in DOMAIN gQueue :
                 /\ gQueue[k].id = id
                 /\ gQueue[k].targetBeat
                       <= transport_get_beat_unlocked(gTransport, MaxNow) + Eps)
          ~> (\A k \in DOMAIN gQueue : gQueue[k].id # id)
    /\ \A h \in Handles :
          (/\ gTransport.playing /\ gSong.loaded
           /\ \E k \in DOMAIN gPendingStops :
                 /\ gPendingStops[k].voice = h
                 /\ gPendingStops[k].endBeat
                       <= transport_get_beat_unlocked(gTransport, MaxNow) + Eps)
          ~> (/\ \A k \in DOMAIN gPendingStops : gPendingStops[k].voice # h
              /\ VoiceEntries(gActiveVoices, h) = {}
              /\ h \notin allocated)

\* One tick, at a beat > 0, has released a launch and deleted a voice that
\* had come to its end: the queue and both voice lists are empty again.
C26_ReleasedAndEnded ==
    /\ last.op = "tick" /\ last.ret = 1
    /\ last.beat > 0
    /\ last.rel # <<>>
    /\ last.flushed # {}
    /\ gQueue = <<>> /\ gPendingStops = <<>> /\ gActiveVoices = <<>>

\* ---------------------------------------------------------------- C27
\* C27: a gm_audio_song_load_file that returns 0 because the file cannot be
\* read or holds no event leaves the song and the transport, and so the
\* beat position, exactly as they were.
C27_RejectedLoadChangesNothing ==
    [][ (last'.op = "song_load" /\ last'.ret = 0
         /\ last'.phase \in {"read", "events"} /\ gEngineIniciado) =>
           (gSong' = gSong /\ gTransport' = gTransport /\ Beat' = Beat) ]_vars

\* A load has failed for want of events on a transport paused at a beat > 0
\* and has left it at beat 0 with the tempo of the file.
C27_FailedLoadMovedBeat ==
    /\ last.op = "song_load" /\ last.ret = 0
    /\ last.phase = "events"
    /\ last.beat > 0
    /\ Beat = 0
    /\ gTransport.bpm = last.arg

====
